---- MODULE Spec2Model ----
(***************************************************************************)
(* Model of tokenizer/simple.go (matrixorigin/monlp): SimpleTokenizer, its *)
(* four state handlers, outputLatin, outputCJK, incrTokenCount and the     *)
(* Tokenize driver.  The input is a sequence of bytes (0..255); runes are  *)
(* obtained from it by UTF-8 decoding, as `range string(t.input)` and      *)
(* utf8.DecodeRune do.                                                     *)
(***************************************************************************)
EXTENDS Integers, Sequences, FiniteSets, TLC

(* ------------------------------------------------------------------ *)
(* Program constants                                                   *)
(* ------------------------------------------------------------------ *)
MAX_TOKEN_SIZE == 23
MARKER_PER_TOKENS == 100
RuneError == 65533

(* ------------------------------------------------------------------ *)
(* Bounds of the model                                                 *)
(* ------------------------------------------------------------------ *)
\* longest input over Alphabet, in characters
MaxWide == 2
\* longest input over Core, in characters
MaxChars == 4
\* longest free tail after a long Latin run or a marker padding, in characters
MaxTail == 2
\* longest repeated Latin run, in characters
MaxRun == 24
\* a long run is at least MAX_TOKEN_SIZE - Slack bytes
Slack == 3
\* units "a<tab>" of a padding that brings the counter next to a threshold
MarkerUnits == 49
\* the consumer stops at its k-th token, k in 1..MaxStop, or never (0)
MaxStop == 3
\* longest input of arbitrary bytes, in bytes
MaxBytes == 4

(* ------------------------------------------------------------------ *)
(* Sequence helpers                                                    *)
(* ------------------------------------------------------------------ *)
Min(a, b) == IF a < b THEN a ELSE b

\* s[from:] of Go, with a 0-based offset
Drop(s, from) == SubSeq(s, from + 1, Len(s))

\* s[lo:hi] of Go, 0-based, hi exclusive
Slice(s, lo, hi) == SubSeq(s, lo + 1, hi)

RECURSIVE Repeat(_, _)
Repeat(s, n) == IF n <= 0 THEN <<>> ELSE s \o Repeat(s, n - 1)

(* ------------------------------------------------------------------ *)
(* unicode/utf8                                                        *)
(* ------------------------------------------------------------------ *)
IsCont(b) == b >= 128 /\ b <= 191

\* a decoder that consumes nothing of what is not ASCII
DecodeRune_AsciiOnly(b) ==
  IF Len(b) > 0 /\ b[1] < 128 THEN [r |-> b[1], size |-> 1]
  ELSE [r |-> RuneError, size |-> 0]

\* utf8.DecodeRune(b): the first rune of b and its width in bytes.  An empty
\* slice gives (RuneError, 0); any malformed or truncated encoding, an
\* overlong form, a surrogate or a value above U+10FFFF gives (RuneError, 1).
DecodeRune(b) ==
  LET n == Len(b)
      bad == [r |-> RuneError, size |-> 1]
  IN IF n = 0 THEN [r |-> RuneError, size |-> 0]
     ELSE LET b0 == b[1] IN
       IF b0 < 128 THEN [r |-> b0, size |-> 1]
       ELSE IF b0 >= 194 /\ b0 <= 223 THEN
         IF n >= 2 /\ IsCont(b[2])
           THEN [r |-> (b0 - 192) * 64 + (b[2] - 128), size |-> 2]
           ELSE bad
       ELSE IF b0 >= 224 /\ b0 <= 239 THEN
         LET lo == IF b0 = 224 THEN 160 ELSE 128
             hi == IF b0 = 237 THEN 159 ELSE 191
         IN IF n >= 3 /\ b[2] >= lo /\ b[2] <= hi /\ IsCont(b[3])
              THEN [r |-> (b0 - 224) * 4096 + (b[2] - 128) * 64 + (b[3] - 128),
                    size |-> 3]
              ELSE bad
       ELSE IF b0 >= 240 /\ b0 <= 244 THEN
         LET lo == IF b0 = 240 THEN 144 ELSE 128
             hi == IF b0 = 244 THEN 143 ELSE 191
         IN IF n >= 4 /\ b[2] >= lo /\ b[2] <= hi /\ IsCont(b[3]) /\ IsCont(b[4])
              THEN [r |-> (b0 - 240) * 262144 + (b[2] - 128) * 4096
                          + (b[3] - 128) * 64 + (b[4] - 128),
                    size |-> 4]
              ELSE bad
       ELSE bad

\* utf8.AppendRune: the UTF-8 encoding of a rune (surrogates and values out of
\* range are encoded as RuneError)
EncodeRune(r) ==
  IF r < 0 \/ r > 1114111 \/ (r >= 55296 /\ r <= 57343)
    THEN <<239, 191, 189>>
  ELSE IF r < 128 THEN <<r>>
  ELSE IF r < 2048 THEN <<192 + (r \div 64), 128 + (r % 64)>>
  ELSE IF r < 65536
    THEN <<224 + (r \div 4096), 128 + ((r \div 64) % 64), 128 + (r % 64)>>
  ELSE <<240 + (r \div 262144), 128 + ((r \div 4096) % 64),
         128 + ((r \div 64) % 64), 128 + (r % 64)>>

(* ------------------------------------------------------------------ *)
(* strings.ToLower and fmt.Sprintf                                     *)
(* ------------------------------------------------------------------ *)
\* unicode.ToLower on the code points an input of this model can hold in a
\* Latin run: ASCII, Latin-1 Supplement, and the three letters below U+07FF
\* of the model's alphabet whose lower case has another encoded width
\* (U+0130 -> U+0069, U+023A -> U+2C65, U+023E -> U+2C66).
ToLowerRune(r) ==
  IF r >= 65 /\ r <= 90 THEN r + 32
  ELSE IF r >= 192 /\ r <= 222 /\ r # 215 THEN r + 32
  ELSE IF r = 304 THEN 105
  ELSE IF r = 570 THEN 11365
  ELSE IF r = 574 THEN 11366
  ELSE r

\* strings.ToLower(s) = strings.Map(unicode.ToLower, s): decode rune by rune,
\* map, re-encode (an invalid byte is re-encoded as RuneError)
RECURSIVE ToLower(_)
ToLower(s) ==
  IF s = <<>> THEN <<>>
  ELSE LET d == DecodeRune(s)
       IN EncodeRune(ToLowerRune(d.r)) \o ToLower(Drop(s, d.size))

\* the decimal digits of n >= 0, as ASCII bytes (%d)
RECURSIVE Decimal(_)
Decimal(n) ==
  IF n < 10 THEN <<48 + n>> ELSE Decimal(n \div 10) \o <<48 + (n % 10)>>

\* "_MARKER_"
MarkerPrefix == <<95, 77, 65, 82, 75, 69, 82, 95>>

\* fmt.Sprintf("_MARKER_%d", n)
SprintfMarker(n) == MarkerPrefix \o Decimal(n)

(* ------------------------------------------------------------------ *)
(* State                                                               *)
(* ------------------------------------------------------------------ *)
VARIABLES
  input,         \* SimpleTokenizer.input: the bytes to tokenize
  begin,         \* SimpleTokenizer.begin: byte offset where the open run starts
  currTokenPos,  \* SimpleTokenizer.currTokenPos: the logical-position counter
  nextMarker,    \* SimpleTokenizer.nextMarker: threshold of the next marker
  latinBuf,      \* SimpleTokenizer.latinBuf: working buffer of outputLatin
  Done,          \* SimpleTokenizer.Done: a yield has returned false
  h,             \* Tokenize: the current handler
  pos,           \* Tokenize: byte offset of the next rune of the range loop
  pc,            \* Tokenize: "start", "loop", "done", or "panic"
  out,           \* the consumer: every token yield was invoked with, in order
  stopAfter,     \* the consumer: yield returns false from its stopAfter-th
                 \* invocation on (0: it never returns false)
  last,          \* history: the handler invocation made by the last step and
                 \* the tokenizer's fields just before it
  calls          \* history: every handler invocation so far, in order

vars == <<input, begin, currTokenPos, nextMarker, latinBuf, Done, h, pos, pc,
          out, stopAfter, last, calls>>

(* ------------------------------------------------------------------ *)
(* Token                                                               *)
(* ------------------------------------------------------------------ *)
\* byte(n)
Byte(n) == n % 256

\* Token{}; TokenBytes[0] = byte(n); copy(TokenBytes[1:], payload); TokenPos = p.
\* TokenBytes is [1 + MAX_TOKEN_SIZE]byte: copy stores at most MAX_TOKEN_SIZE
\* bytes of payload and the rest of the array stays zero.
MakeToken(n, payload, p) ==
  LET k == Min(Len(payload), MAX_TOKEN_SIZE)
  IN [TokenBytes |-> <<Byte(n)>> \o SubSeq(payload, 1, k)
                       \o [i \in 1..(MAX_TOKEN_SIZE - k) |-> 0],
      TokenPos |-> p]

(* ------------------------------------------------------------------ *)
(* Rune classification                                                 *)
(* ------------------------------------------------------------------ *)
isBreakerRune(rune) == rune < 33 \/ rune = 127 \/ rune = RuneError

isLatin(rune) == rune < 2047

(* ------------------------------------------------------------------ *)
(* The tokenizer's fields as one record, as the handlers receive them  *)
(* through t *SimpleTokenizer; out and stopAfter are the consumer      *)
(* behind yield, and panicked records a Go run-time panic (index or    *)
(* slice out of range).                                                *)
(* ------------------------------------------------------------------ *)
Self ==
  [begin |-> begin, currTokenPos |-> currTokenPos, nextMarker |-> nextMarker,
   latinBuf |-> latinBuf, Done |-> Done, out |-> out, panicked |-> FALSE,
   stopAfter |-> stopAfter]

\* yield(token): the consumer receives the token
Yield(t, token) == [t EXCEPT !.out = Append(@, token)]

\* the value the yield just made returned: false from the consumer's
\* stopAfter-th token on
Accepted(t) == t.stopAfter = 0 \/ Len(t.out) < t.stopAfter

(* ------------------------------------------------------------------ *)
(* incrTokenCount                                                      *)
(* ------------------------------------------------------------------ *)
\* mutant: the marker is delivered one advance late (> for >=)
incrTokenCount_Late(t, n, p) ==
  LET t1 == [t EXCEPT !.currTokenPos = @ + n]
  IN IF t1.currTokenPos > t1.nextMarker
       THEN LET mkStr == SprintfMarker(t1.nextMarker)
                token == MakeToken(Len(mkStr), mkStr, p)
                t2 == Yield(t1, token)
                t3 == IF ~Accepted(t2) THEN [t2 EXCEPT !.Done = TRUE] ELSE t2
            IN [t3 EXCEPT !.nextMarker = @ + MARKER_PER_TOKENS]
       ELSE t1

\* mutant: the marker carries the logical position, not the byte offset
incrTokenCount_LogicalPos(t, n, p) ==
  LET t1 == [t EXCEPT !.currTokenPos = @ + n]
  IN IF t1.currTokenPos >= t1.nextMarker
       THEN LET mkStr == SprintfMarker(t1.nextMarker)
                token == MakeToken(Len(mkStr), mkStr, t1.currTokenPos)
                t2 == Yield(t1, token)
                t3 == IF ~Accepted(t2) THEN [t2 EXCEPT !.Done = TRUE] ELSE t2
            IN [t3 EXCEPT !.nextMarker = @ + MARKER_PER_TOKENS]
       ELSE t1

incrTokenCount(t, n, p) ==
  LET t1 == [t EXCEPT !.currTokenPos = @ + n]
  IN IF t1.currTokenPos >= t1.nextMarker
       THEN LET mkStr == SprintfMarker(t1.nextMarker)
                token == MakeToken(Len(mkStr), mkStr, p)
                t2 == Yield(t1, token)
                t3 == IF ~Accepted(t2) THEN [t2 EXCEPT !.Done = TRUE] ELSE t2
            IN [t3 EXCEPT !.nextMarker = @ + MARKER_PER_TOKENS]
       ELSE t1

(* ------------------------------------------------------------------ *)
(* outputLatin                                                         *)
(* ------------------------------------------------------------------ *)
IsAlnum(c) ==
  (c >= 48 /\ c <= 57) \/ (c >= 97 /\ c <= 122) \/ (c >= 65 /\ c <= 90)

\* a loop that skips a byte for which there is no room and goes on, instead
\* of leaving the loop
RECURSIVE latinScan_Continue(_, _, _)
latinScan_Continue(ibuf, i, buf) ==
  IF i >= Len(ibuf) THEN [buf |-> buf, panicked |-> FALSE]
  ELSE LET c == ibuf[i + 1] IN
    IF c > 127 THEN
      IF Len(buf) >= MAX_TOKEN_SIZE - 1 THEN latinScan_Continue(ibuf, i + 1, buf)
      ELSE IF i + 1 >= Len(ibuf) THEN [buf |-> Append(buf, c), panicked |-> TRUE]
      ELSE latinScan_Continue(ibuf, i + 2, buf \o <<c, ibuf[i + 2]>>)
    ELSE
      IF Len(buf) >= MAX_TOKEN_SIZE THEN latinScan_Continue(ibuf, i + 1, buf)
      ELSE latinScan_Continue(ibuf, i + 1,
                              IF IsAlnum(c) THEN Append(buf, c) ELSE buf)

\* the for loop of outputLatin over ibuf from 0-based index i, with the
\* buffer written so far; panicked when ibuf[i+1] is out of range
RECURSIVE latinScan(_, _, _)
latinScan(ibuf, i, buf) ==
  IF i >= Len(ibuf) THEN [buf |-> buf, panicked |-> FALSE]
  ELSE LET c == ibuf[i + 1] IN
    IF c > 127 THEN
      IF Len(buf) >= MAX_TOKEN_SIZE - 1 THEN [buf |-> buf, panicked |-> FALSE]
      ELSE IF i + 1 >= Len(ibuf) THEN [buf |-> Append(buf, c), panicked |-> TRUE]
      ELSE latinScan(ibuf, i + 2, buf \o <<c, ibuf[i + 2]>>)
    ELSE
      IF Len(buf) >= MAX_TOKEN_SIZE THEN [buf |-> buf, panicked |-> FALSE]
      ELSE latinScan(ibuf, i + 1, IF IsAlnum(c) THEN Append(buf, c) ELSE buf)

\* an outputLatin that does not advance the counter after a delivered token
outputLatin_NoAdvance(t, p) ==
  IF t.begin > p \/ p > Len(input) THEN [t EXCEPT !.panicked = TRUE]
  ELSE
  LET sc == latinScan(Slice(input, t.begin, p), 0, <<>>)
      t1 == [t EXCEPT !.latinBuf = sc.buf]
  IN IF sc.panicked THEN [t1 EXCEPT !.panicked = TRUE]
     ELSE IF Len(sc.buf) > 1
       THEN LET ls == ToLower(sc.buf)
                token == MakeToken(Len(ls), ls, t1.currTokenPos)
                t2 == Yield(t1, token)
            IN IF ~Accepted(t2) THEN [t2 EXCEPT !.Done = TRUE] ELSE t2
       ELSE incrTokenCount(t1, 1, p)

outputLatin(t, p) ==
  IF t.begin > p \/ p > Len(input) THEN [t EXCEPT !.panicked = TRUE]
  ELSE
  LET sc == latinScan(Slice(input, t.begin, p), 0, <<>>)
      t1 == [t EXCEPT !.latinBuf = sc.buf]
  IN IF sc.panicked THEN [t1 EXCEPT !.panicked = TRUE]
     ELSE IF Len(sc.buf) > 1
       THEN LET ls == ToLower(sc.buf)
                token == MakeToken(Len(ls), ls, t1.currTokenPos)
                t2 == Yield(t1, token)
            IN IF ~Accepted(t2) THEN [t2 EXCEPT !.Done = TRUE]
               ELSE incrTokenCount(t2, 1, p)
       ELSE incrTokenCount(t1, 1, p)

(* ------------------------------------------------------------------ *)
(* outputCJK                                                           *)
(* ------------------------------------------------------------------ *)
\* a window loop that hands incrTokenCount the offset where the window ends
RECURSIVE cjkLoop_WindowEnd(_, _, _, _, _, _)
cjkLoop_WindowEnd(t, ibuf, ia, ib, ic, id) ==
  IF ~(ia < id) THEN t
  ELSE LET token == MakeToken(id - ia, Slice(ibuf, ia, id), t.currTokenPos)
           t1 == Yield(t, token)
       IN IF ~Accepted(t1) THEN [t1 EXCEPT !.Done = TRUE]
          ELSE LET t2 == incrTokenCount(t1, 1, t1.begin + id)
               IN IF t2.Done THEN t2
                  ELSE cjkLoop_WindowEnd(t2, ibuf, ib, ic, id,
                                         id + DecodeRune(Drop(ibuf, id)).size)

\* the for loop of outputCJK with its four offsets into ibuf
RECURSIVE cjkLoop(_, _, _, _, _, _)
cjkLoop(t, ibuf, ia, ib, ic, id) ==
  IF ~(ia < id) THEN t
  ELSE LET token == MakeToken(id - ia, Slice(ibuf, ia, id), t.currTokenPos)
           t1 == Yield(t, token)
       IN IF ~Accepted(t1) THEN [t1 EXCEPT !.Done = TRUE]
          ELSE LET t2 == incrTokenCount(t1, 1, t1.begin + ia)
               IN IF t2.Done THEN t2
                  ELSE cjkLoop(t2, ibuf, ib, ic, id,
                               id + DecodeRune(Drop(ibuf, id)).size)

\* mutant: windows of at most two code points
outputCJK_Bigram(t, p) ==
  IF t.begin > p \/ p > Len(input) THEN [t EXCEPT !.panicked = TRUE]
  ELSE
  LET ibuf == Slice(input, t.begin, p)
      ib == DecodeRune(ibuf).size
      ic == ib + DecodeRune(Drop(ibuf, ib)).size
  IN cjkLoop(t, ibuf, 0, ib, ic, ic)

outputCJK(t, p) ==
  IF t.begin > p \/ p > Len(input) THEN [t EXCEPT !.panicked = TRUE]
  ELSE
  LET ibuf == Slice(input, t.begin, p)
      ia == 0
      ib == DecodeRune(ibuf).size
      ic == ib + DecodeRune(Drop(ibuf, ib)).size
      id == ic + DecodeRune(Drop(ibuf, ic)).size
  IN cjkLoop(t, ibuf, ia, ib, ic, id)

(* ------------------------------------------------------------------ *)
(* The handlers: each gives the tokenizer after the call and the       *)
(* handler it returns                                                  *)
(* ------------------------------------------------------------------ *)
beginToken(t, p, rune) ==
  IF isBreakerRune(rune) THEN [t |-> [t EXCEPT !.begin = p], h |-> "breaker"]
  ELSE IF isLatin(rune) THEN [t |-> [t EXCEPT !.begin = p], h |-> "latin"]
  ELSE [t |-> [t EXCEPT !.begin = p], h |-> "cjk"]

\* mutant: only the length of the breaker run is tested, not its byte
breakerToken_LengthOnly(t, p, rune) ==
  IF isBreakerRune(rune) THEN [t |-> t, h |-> "breaker"]
  ELSE
    LET t1 == IF p > t.begin + 1 THEN incrTokenCount(t, 1, p) ELSE t
    IN IF isLatin(rune) THEN [t |-> [t1 EXCEPT !.begin = p], h |-> "latin"]
       ELSE [t |-> [t1 EXCEPT !.begin = p], h |-> "cjk"]

breakerToken(t, p, rune) ==
  IF isBreakerRune(rune) THEN [t |-> t, h |-> "breaker"]
  ELSE IF ~(p > t.begin + 1) /\ t.begin >= Len(input)
    THEN [t |-> [t EXCEPT !.panicked = TRUE], h |-> "breaker"]
  ELSE
    LET t1 == IF p > t.begin + 1 \/ input[t.begin + 1] # 32
                THEN incrTokenCount(t, 1, p) ELSE t
    IN IF isLatin(rune) THEN [t |-> [t1 EXCEPT !.begin = p], h |-> "latin"]
       ELSE [t |-> [t1 EXCEPT !.begin = p], h |-> "cjk"]

\* a latinToken that, like cjkToken, lets every character that is not a
\* breaker join the run
latinToken_Absorb(t, p, rune) ==
  IF isBreakerRune(rune)
    THEN LET t1 == outputLatin(t, p)
         IN IF t1.panicked THEN [t |-> t1, h |-> "latin"]
            ELSE [t |-> [t1 EXCEPT !.begin = p], h |-> "breaker"]
  ELSE [t |-> t, h |-> "latin"]

latinToken(t, p, rune) ==
  IF isBreakerRune(rune)
    THEN LET t1 == outputLatin(t, p)
         IN IF t1.panicked THEN [t |-> t1, h |-> "latin"]
            ELSE [t |-> [t1 EXCEPT !.begin = p], h |-> "breaker"]
  ELSE IF isLatin(rune) THEN [t |-> t, h |-> "latin"]
  ELSE LET t1 == outputLatin(t, p)
       IN IF t1.panicked THEN [t |-> t1, h |-> "latin"]
          ELSE [t |-> [t1 EXCEPT !.begin = p], h |-> "cjk"]

\* mutant: the branch commented out in the source is live, a Latin-class
\* character closes the CJK run
cjkToken_Symmetric(t, p, rune) ==
  IF isBreakerRune(rune)
    THEN [t |-> [outputCJK(t, p) EXCEPT !.begin = p], h |-> "breaker"]
  ELSE IF isLatin(rune)
    THEN [t |-> [outputCJK(t, p) EXCEPT !.begin = p], h |-> "latin"]
  ELSE [t |-> t, h |-> "cjk"]

cjkToken(t, p, rune) ==
  IF isBreakerRune(rune)
    THEN LET t1 == outputCJK(t, p)
         IN IF t1.panicked THEN [t |-> t1, h |-> "cjk"]
            ELSE [t |-> [t1 EXCEPT !.begin = p], h |-> "breaker"]
  ELSE [t |-> t, h |-> "cjk"]

\* h(t, pos, rune, yield) for the handler value h
Call(hh, t, p, rune) ==
  CASE hh = "begin" -> beginToken(t, p, rune)
    [] hh = "breaker" -> breakerToken(t, p, rune)
    [] hh = "latin" -> latinToken(t, p, rune)
    [] hh = "cjk" -> cjkToken(t, p, rune)

(* ------------------------------------------------------------------ *)
(* Inputs                                                              *)
(* ------------------------------------------------------------------ *)
\* The characters inputs are built from, as UTF-8 byte sequences:
\* a  B  7  ,  space  tab  DEL  an invalid byte (0xFF)
\* U+00C0 (2 bytes, lower case U+00E0)     U+0130 (2 bytes, lower case "i")
\* U+023A (2 bytes, lower case U+2C65 has 3 bytes)
\* U+07FF (the last 2-byte code point)     U+4E2D (3 bytes)
\* U+1F600 (4 bytes)
Alphabet ==
  { <<97>>, <<66>>, <<55>>, <<44>>, <<32>>, <<9>>, <<127>>, <<255>>,
    <<195, 128>>, <<196, 176>>, <<200, 186>>, <<223, 191>>,
    <<228, 184, 173>>, <<240, 159, 152, 128>> }

\* every concatenation of at most n characters of A
RECURSIVE Strs(_, _)
Strs(A, n) ==
  IF n <= 0 THEN {<<>>}
  ELSE LET S == Strs(A, n - 1) IN S \cup {s \o c : s \in S, c \in A}

\* a  ,  space  tab  U+00C0  U+4E2D
Core == { <<97>>, <<44>>, <<32>>, <<9>>, <<195, 128>>, <<228, 184, 173>> }

Inputs == Strs(Alphabet, MaxWide) \cup Strs(Core, MaxChars)

(* ------------------------------------------------------------------ *)
(* Init: NewSimpleTokenizer(input), and a consumer                     *)
(* ------------------------------------------------------------------ *)
NoCall == [h |-> "none", pos |-> 0, rune |-> 0, flush |-> FALSE, begin |-> 0,
           currTokenPos |-> 0, nextMarker |-> 0, nout |-> 0]

InitWith(I) ==
  /\ input \in I
  /\ stopAfter \in 0..MaxStop
  /\ begin = 0
  /\ currTokenPos = 0
  /\ nextMarker = MARKER_PER_TOKENS
  /\ latinBuf = <<>>
  /\ Done = FALSE
  /\ h = "begin"
  /\ pos = 0
  /\ pc = "start"
  /\ out = <<>>
  /\ last = NoCall
  /\ calls = <<>>

Init == InitWith(Inputs)

(* ------------------------------------------------------------------ *)
(* Tokenize                                                            *)
(* ------------------------------------------------------------------ *)
\* the tokenizer after a handler call, and where Tokenize goes next
Apply(res, nextPos, nextPc, rune, flush) ==
  /\ begin' = res.t.begin
  /\ currTokenPos' = res.t.currTokenPos
  /\ nextMarker' = res.t.nextMarker
  /\ latinBuf' = res.t.latinBuf
  /\ Done' = res.t.Done
  /\ out' = res.t.out
  /\ h' = res.h
  /\ pos' = IF res.t.panicked THEN pos ELSE nextPos
  /\ pc' = IF res.t.panicked THEN "panic" ELSE nextPc
  /\ last' = [h |-> h, pos |-> pos, rune |-> rune, flush |-> flush,
              begin |-> begin, currTokenPos |-> currTokenPos,
              nextMarker |-> nextMarker, nout |-> Len(out)]
  /\ calls' = Append(calls, last')
  /\ UNCHANGED <<input, stopAfter>>

\* a Tokenize without the test for an empty input
Enter_NoEmptyTest ==
  /\ pc = "start"
  /\ pc' = "loop"
  /\ h' = "begin"
  /\ UNCHANGED <<input, begin, currTokenPos, nextMarker, latinBuf, Done, pos,
                 out, stopAfter, last, calls>>

\* if len(t.input) == 0 { return }; h := beginToken
Enter ==
  /\ pc = "start"
  /\ pc' = IF Len(input) = 0 THEN "done" ELSE "loop"
  /\ h' = "begin"
  /\ UNCHANGED <<input, begin, currTokenPos, nextMarker, latinBuf, Done, pos,
                 out, stopAfter, last, calls>>

\* the range loop has a next rune and t.Done is set: return
Cancelled ==
  /\ pc = "loop"
  /\ pos < Len(input)
  /\ Done
  /\ pc' = "done"
  /\ UNCHANGED <<input, begin, currTokenPos, nextMarker, latinBuf, Done, h, pos,
                 out, stopAfter, last, calls>>

\* one iteration of the range loop: if t.Done { return } is passed and
\* h = h(t, pos, rune, yield) runs on the rune decoded at pos
Iterate ==
  LET d == DecodeRune(Drop(input, pos))
  IN Apply(Call(h, Self, pos, d.r), pos + d.size, "loop", d.r, FALSE)

BeginStep ==
  /\ pc = "loop" /\ pos < Len(input) /\ ~Done
  /\ h = "begin"
  /\ Iterate

BreakerStep ==
  /\ pc = "loop" /\ pos < Len(input) /\ ~Done
  /\ h = "breaker"
  /\ Iterate

LatinStep ==
  /\ pc = "loop" /\ pos < Len(input) /\ ~Done
  /\ h = "latin"
  /\ Iterate

CjkStep ==
  /\ pc = "loop" /\ pos < Len(input) /\ ~Done
  /\ h = "cjk"
  /\ Iterate

\* a Tokenize that returns when the loop ends, the open run left open
Flush_NoClose ==
  /\ pc = "loop"
  /\ pos = Len(input)
  /\ pc' = "done"
  /\ UNCHANGED <<input, begin, currTokenPos, nextMarker, latinBuf, Done, h, pos,
                 out, stopAfter, last, calls>>

\* after the loop: h(t, len(t.input), ' ', yield)
Flush ==
  /\ pc = "loop"
  /\ pos = Len(input)
  /\ Apply(Call(h, Self, Len(input), 32), pos, "done", 32, TRUE)

Next ==
  \/ Enter
  \/ Cancelled
  \/ BeginStep
  \/ BreakerStep
  \/ LatinStep
  \/ CjkStep
  \/ Flush

Spec == Init /\ [][Next]_vars

(* ------------------------------------------------------------------ *)
(* Long Latin runs: a repeated character, then a short tail            *)
(* ------------------------------------------------------------------ *)
\* a  U+00C0  U+023A
LongUnits == { <<97>>, <<195, 128>>, <<200, 186>> }

\* a  ,  space  U+00C0  U+4E2D
TailChars == { <<97>>, <<44>>, <<32>>, <<195, 128>>, <<228, 184, 173>> }

RunsOf(u) ==
  { Repeat(u, k) : k \in { n \in 1..MaxRun : /\ Len(u) * n >= MAX_TOKEN_SIZE - Slack
                                              /\ Len(u) * n <= MaxRun } }

LongRuns == UNION { RunsOf(u) : u \in LongUnits }

LongInputs ==
  { r \o t : r \in LongRuns, t \in Strs(TailChars, MaxTail) }
    \cup Strs(TailChars, MaxTail)

InitLong == InitWith(LongInputs)

SpecLong == InitLong /\ [][Next]_vars

(* ------------------------------------------------------------------ *)
(* Inputs that reach the marker thresholds: a padding, then a short    *)
(* tail.  n units "a<tab>" leave the counter at 2n - 1 with a tab run  *)
(* open; a following "a " leaves it at 2n + 1 with a single-space run  *)
(* open.  The longest padding starts with the word "aa".               *)
(* ------------------------------------------------------------------ *)
Units(n) == Repeat(<<97, 9>>, n)

Paddings ==
  { Units(MarkerUnits),
    Units(MarkerUnits) \o <<97, 32>>,
    <<97, 97, 9>> \o Units(2 * MarkerUnits) \o <<97, 32>> }

\* a  space  tab  U+4E2D
MarkerChars == { <<97>>, <<32>>, <<9>>, <<228, 184, 173>> }

MarkerInputs ==
  { p \o t : p \in Paddings, t \in Strs(MarkerChars, MaxTail) }
    \cup Strs(MarkerChars, MaxTail)

InitMarker == InitWith(MarkerInputs)

SpecMarker == InitMarker /\ [][Next]_vars

(* ------------------------------------------------------------------ *)
(* Arbitrary byte sequences: valid and invalid UTF-8                   *)
(* ------------------------------------------------------------------ *)
\* space, a, the bytes of U+00C0 (C3 80) and U+4E00 (E4 B8 80), and FF; the
\* sequences over them hold lone continuation bytes, truncated encodings and
\* the byte that is valid nowhere
ByteSet == {32, 97, 128, 184, 195, 228, 255}

ByteInputs == Strs({<<b>> : b \in ByteSet}, MaxBytes)

InitBytes == InitWith(ByteInputs)

SpecBytes == InitBytes /\ [][Next]_vars

(* ------------------------------------------------------------------ *)
(* Reading tokens, as a consumer does                                  *)
(* ------------------------------------------------------------------ *)
\* the recorded payload length, TokenBytes[0]
TokLen(tok) == tok.TokenBytes[1]

\* the payload bytes stored in TokenBytes[1:] (no payload byte is 0: the
\* byte 0 is a breaker)
Stored(tok) ==
  SelectSeq(SubSeq(tok.TokenBytes, 2, 1 + MAX_TOKEN_SIZE), LAMBDA b : b # 0)

IsMarker(tok) ==
  /\ Len(Stored(tok)) > Len(MarkerPrefix)
  /\ SubSeq(Stored(tok), 1, Len(MarkerPrefix)) = MarkerPrefix

\* the tokens yield received during the last handler call
Delivered == SubSeq(out, last.nout + 1, Len(out))

\* the consumer has returned false from a yield
Stopped == stopAfter # 0 /\ Len(out) >= stopAfter

(* ------------------------------------------------------------------ *)
(* C1: early cancellation.  Once a yield has returned false, yield is  *)
(* not invoked again: the consumer that stops at its k-th token is     *)
(* handed exactly k tokens, also at the end-of-input flush.            *)
(* ------------------------------------------------------------------ *)
C1_NoYieldAfterStop == stopAfter # 0 => Len(out) <= stopAfter

(* ------------------------------------------------------------------ *)
(* C2: every delivered token (Latin, CJK n-gram or marker) records a   *)
(* payload length TokenBytes[0] between 1 and MAX_TOKEN_SIZE, and that *)
(* length is the number of payload bytes stored in the token.          *)
(* ------------------------------------------------------------------ *)
C2_TokenLength ==
  \A i \in 1..Len(out) :
    /\ TokLen(out[i]) >= 1
    /\ TokLen(out[i]) <= MAX_TOKEN_SIZE
    /\ TokLen(out[i]) = Len(Stored(out[i]))

(* ------------------------------------------------------------------ *)
(* C3: the marker "_MARKER_<100k>" is delivered exactly once if the    *)
(* counter has reached 100k and never otherwise; markers come in       *)
(* increasing threshold order; every content token delivered before    *)
(* the marker of threshold T has a position < T and every content      *)
(* token delivered after it has a position >= T.                       *)
(* ------------------------------------------------------------------ *)
Markers == SelectSeq(out, IsMarker)

\* the number of markers among the first i delivered tokens
MarkersBefore(i) == Len(SelectSeq(SubSeq(out, 1, i), IsMarker))

\* C3: in every state the markers delivered are exactly those of the thresholds
\* the counter has reached, once each and in increasing order, and every
\* content token lies after the markers of thresholds <= its position and
\* before the markers of thresholds above it
C3_Markers ==
  /\ Len(Markers) = currTokenPos \div MARKER_PER_TOKENS
  /\ \A k \in 1..Len(Markers) :
       /\ Stored(Markers[k]) = SprintfMarker(k * MARKER_PER_TOKENS)
       /\ TokLen(Markers[k]) = Len(SprintfMarker(k * MARKER_PER_TOKENS))
  /\ \A i \in 1..Len(out) :
       ~IsMarker(out[i]) =>
         /\ out[i].TokenPos >= MarkersBefore(i) * MARKER_PER_TOKENS
         /\ out[i].TokenPos < (MarkersBefore(i) + 1) * MARKER_PER_TOKENS

\* two markers were delivered, with content tokens before, between and after
C3_Witness ==
  /\ pc = "done"
  /\ Len(Markers) = 2
  /\ \E i, j, k \in 1..Len(out) :
       /\ ~IsMarker(out[i]) /\ ~IsMarker(out[j]) /\ ~IsMarker(out[k])
       /\ MarkersBefore(i) = 0 /\ MarkersBefore(j) = 1 /\ MarkersBefore(k) = 2

(* ------------------------------------------------------------------ *)
(* C4: marker positions.                                               *)
(* ------------------------------------------------------------------ *)
\* the byte offset in buf of its n-th code point (0-based)
RECURSIVE CodePointOffset(_, _)
CodePointOffset(buf, n) ==
  IF n <= 0 \/ buf = <<>> THEN 0
  ELSE LET sz == DecodeRune(buf).size
       IN sz + CodePointOffset(Drop(buf, sz), n - 1)

\* C4 as claimed: every marker's position is the byte offset the scan had
\* reached when the counter crossed the threshold (the offset of the character
\* being processed), whether a breaker run, a Latin run or a CJK window
\* caused the advance
C4_MarkerAtScanOffset ==
  \A i \in (last.nout + 1)..Len(out) :
    IsMarker(out[i]) => out[i].TokenPos = last.pos

\* C4 as amended: a marker's position is a byte offset of the input.  When
\* closing a breaker run or a Latin run crosses the threshold it is the offset
\* of the character being processed (len(input) at the end-of-input flush);
\* when a CJK window crosses it, it is the offset of the first byte of that
\* window, the window delivered just before the marker.
C4_MarkerOffset ==
  \A i \in (last.nout + 1)..Len(out) :
    IsMarker(out[i]) =>
      IF last.h = "cjk"
        THEN /\ i - 1 > last.nout
             /\ ~IsMarker(out[i - 1])
             /\ out[i].TokenPos =
                  last.begin
                  + CodePointOffset(Slice(input, last.begin, last.pos),
                                    out[i - 1].TokenPos - last.currTokenPos)
             /\ Stored(out[i - 1]) =
                  Slice(input, out[i].TokenPos,
                        out[i].TokenPos + TokLen(out[i - 1]))
        ELSE out[i].TokenPos = last.pos

\* a CJK window that is not the first of its run crossed the threshold
C4_Witness ==
  /\ last.h = "cjk"
  /\ ~Stopped
  /\ \E i \in (last.nout + 1)..Len(out) :
       /\ IsMarker(out[i])
       /\ out[i].TokenPos > last.begin
       /\ out[i].TokenPos < last.pos

(* ------------------------------------------------------------------ *)
(* Runs, as the claims speak of them                                   *)
(* ------------------------------------------------------------------ *)
\* the bytes of the run the last handler call worked on
LastRun == Slice(input, last.begin, last.pos)

\* the content tokens (no markers) delivered by the last handler call
Content == SelectSeq(Delivered, LAMBDA tok : ~IsMarker(tok))

\* the last call was latinToken on a rune that closes the Latin run
ClosedLatin ==
  last.h = "latin" /\ (isBreakerRune(last.rune) \/ ~isLatin(last.rune))

\* the last call was cjkToken on a rune that closes the CJK run
ClosedCJK == last.h = "cjk" /\ isBreakerRune(last.rune)

\* the last call was breakerToken on a rune that closes the breaker run
ClosedBreaker == last.h = "breaker" /\ ~isBreakerRune(last.rune)

RECURSIVE NumCodePoints(_)
NumCodePoints(buf) ==
  IF buf = <<>> THEN 0
  ELSE 1 + NumCodePoints(Drop(buf, DecodeRune(buf).size))

(* ------------------------------------------------------------------ *)
(* C5: breaker-run accounting.                                         *)
(* ------------------------------------------------------------------ *)
SlotOfBreakerRun(run) == IF run = <<32>> THEN 0 ELSE 1

\* C5 as amended: a breaker run that is followed by a content character
\* advances the counter, when that character closes it, by nothing if it is
\* exactly one ASCII space and by exactly one otherwise, whatever its length;
\* a call of breakerToken on a breaker (a longer run, or the end-of-input
\* flush of a trailing breaker run) advances nothing.
C5_ClosedBreakerRun ==
  /\ ClosedBreaker =>
       currTokenPos = last.currTokenPos + SlotOfBreakerRun(LastRun)
  /\ (last.h = "breaker" /\ isBreakerRune(last.rune)) =>
       currTokenPos = last.currTokenPos

\* C5 as claimed: every breaker run other than a single space, at any place in
\* the input, advances the counter by one: also the run the input ends with,
\* which is open when the end-of-input flush runs
C5_BreakerRunAnywhere ==
  /\ ClosedBreaker =>
       currTokenPos = last.currTokenPos + SlotOfBreakerRun(LastRun)
  /\ (pc = "done" /\ last.flush /\ last.h = "breaker") =>
       currTokenPos = last.currTokenPos + SlotOfBreakerRun(LastRun)

\* a run of exactly one breaker that is not a space was closed
C5_Witness ==
  /\ ClosedBreaker
  /\ last.pos = last.begin + 1
  /\ LastRun # <<32>>
  /\ currTokenPos = last.currTokenPos + 1

(* ------------------------------------------------------------------ *)
(* C6: closing a Latin run whose normalized string (punctuation        *)
(* filtered, truncated, case folded) has at most one byte delivers no  *)
(* token, one with more than one byte delivers exactly one token, at   *)
(* the counter value before the advance; the counter advances by one   *)
(* in both cases (the consumer accepting what it is given).            *)
(* ------------------------------------------------------------------ *)
C6_LatinClose ==
  (ClosedLatin /\ ~Stopped) =>
    /\ currTokenPos = last.currTokenPos + 1
    /\ IF Len(ToLower(latinBuf)) <= 1
         THEN Content = <<>>
         ELSE /\ Len(Content) = 1
              /\ Content[1].TokenPos = last.currTokenPos

(* ------------------------------------------------------------------ *)
(* C7: closing a CJK run of n code points, the consumer accepting all  *)
(* of it, delivers n content tokens: token i (0-based) holds the raw   *)
(* bytes of code points i .. min(i+2, n-1), at position c + i, where c *)
(* is the counter when the run closes; the counter ends at c + n.      *)
(* ------------------------------------------------------------------ *)
Window(run, i) ==
  Slice(run, CodePointOffset(run, i),
        CodePointOffset(run, Min(i + 3, NumCodePoints(run))))

\* C7: a closed CJK run of n code points gives the n windows of up to three
\* code points, raw, at positions c .. c+n-1, and leaves the counter at c+n
C7_Trigrams ==
  (ClosedCJK /\ ~Done) =>
    LET n == NumCodePoints(LastRun)
    IN /\ Len(Content) = n
       /\ currTokenPos = last.currTokenPos + n
       /\ \A i \in 0..(n - 1) :
            /\ Stored(Content[i + 1]) = Window(LastRun, i)
            /\ TokLen(Content[i + 1]) = Len(Window(LastRun, i))
            /\ Content[i + 1].TokenPos = last.currTokenPos + i

\* a run of at least three code points was closed and fully delivered
C7_Witness ==
  /\ ClosedCJK
  /\ ~Done
  /\ NumCodePoints(LastRun) >= 3
  /\ Len(Content) >= 3

(* ------------------------------------------------------------------ *)
(* C8: a Latin token's payload is never longer than MAX_TOKEN_SIZE     *)
(* bytes and consists of whole characters: no character is split by    *)
(* the truncation, for every Latin run of any length and any mix of    *)
(* ASCII and 2-byte characters.                                        *)
(* ------------------------------------------------------------------ *)
\* buf is a sequence of complete, valid UTF-8 encodings
RECURSIVE WholeChars(_)
WholeChars(buf) ==
  IF buf = <<>> THEN TRUE
  ELSE LET d == DecodeRune(buf)
       IN /\ ~(d.r = RuneError /\ d.size = 1)
          /\ WholeChars(Drop(buf, d.size))

\* the payload a consumer reads: TokenBytes[0] bytes, as far as there are any
Payload(tok) ==
  SubSeq(tok.TokenBytes, 2, 1 + Min(TokLen(tok), MAX_TOKEN_SIZE))

\* C8: every token of a closed Latin run records at most MAX_TOKEN_SIZE bytes
\* and its payload is made of whole characters
C8_LatinPayloadWhole ==
  ClosedLatin =>
    \A i \in 1..Len(Content) :
      /\ TokLen(Content[i]) <= MAX_TOKEN_SIZE
      /\ WholeChars(Payload(Content[i]))

(* ------------------------------------------------------------------ *)
(* C9: a token produced from a Latin run holds no ASCII byte other     *)
(* than 0-9 and a-z, and holds the characters retained from the run    *)
(* (ASCII letters and digits, 2-byte characters), each in its lower-   *)
(* case form, in their original order.                                 *)
(* ------------------------------------------------------------------ *)
\* the code points of a buffer of whole characters
RECURSIVE Runes(_)
Runes(buf) ==
  IF buf = <<>> THEN <<>>
  ELSE LET d == DecodeRune(buf)
       IN <<d.r>> \o Runes(Drop(buf, d.size))

\* the characters of the run that outputLatin retained, in order
Retained == Runes(latinBuf)

\* C9: every token of a closed Latin run has no ASCII byte outside 0-9 and a-z
\* and spells the retained characters of the run in lower case, in order
C9_LatinNormalized ==
  ClosedLatin =>
    \A i \in 1..Len(Content) :
      /\ \A k \in 1..Len(Payload(Content[i])) :
           LET b == Payload(Content[i])[k]
           IN b < 128 => ((b >= 48 /\ b <= 57) \/ (b >= 97 /\ b <= 122))
      /\ Runes(Payload(Content[i]))
           = [k \in 1..Len(Retained) |-> ToLowerRune(Retained[k])]

(* ------------------------------------------------------------------ *)
(* C10: run asymmetry.  In state CJK a Latin-class character does not  *)
(* close the run: nothing is delivered, the run start and the counter  *)
(* stay, and when a breaker or the end of input closes the run the     *)
(* character is a member of the windows with its raw bytes.  In state  *)
(* Latin a CJK-class character closes the Latin run, emits it, and     *)
(* starts a CJK run at that character's offset.                        *)
(* ------------------------------------------------------------------ *)
\* the first code point of the payload of each token, concatenated
RECURSIVE Heads(_)
Heads(toks) ==
  IF toks = <<>> THEN <<>>
  ELSE LET pl == Stored(toks[1])
       IN SubSeq(pl, 1, DecodeRune(pl).size) \o Heads(Tail(toks))

\* C10: a Latin-class character leaves a CJK run open and ends up raw in its
\* windows; a CJK-class character closes a Latin run, emits it and starts a
\* CJK run at its own offset
C10_RunAsymmetry ==
  /\ (last.h = "cjk" /\ ~isBreakerRune(last.rune) /\ isLatin(last.rune)) =>
       /\ h = "cjk"
       /\ begin = last.begin
       /\ currTokenPos = last.currTokenPos
       /\ Delivered = <<>>
  /\ (ClosedCJK /\ ~Done) => Heads(Content) = LastRun
  /\ (last.h = "latin" /\ ~isBreakerRune(last.rune) /\ ~isLatin(last.rune)) =>
       /\ h = "cjk"
       /\ begin = last.pos
       /\ ~Done => currTokenPos = last.currTokenPos + 1
       /\ Len(latinBuf) > 1 =>
            /\ Len(Content) = 1
            /\ Content[1].TokenPos = last.currTokenPos
            /\ Delivered[1] = Content[1]

\* a CJK run that holds an upper-case ASCII letter was closed and delivered
\* whole, the letter unchanged in a window
C10_Witness ==
  /\ ClosedCJK
  /\ ~Done
  /\ \E k \in 1..Len(LastRun) : LastRun[k] = 66
  /\ \E i \in 1..Len(Content) : \E k \in 1..Len(Stored(Content[i])) :
       Stored(Content[i])[k] = 66

(* ------------------------------------------------------------------ *)
(* C11: the end-of-input flush.  The consumer never cancelling, the    *)
(* run open at the end of a non-empty input is closed by one handler   *)
(* call at offset len(input) on a breaker: an open Latin run delivers  *)
(* its token and advances the counter by one, an open CJK run delivers *)
(* all its windows and advances by their number, and the run start     *)
(* ends at len(input); runs are contiguous, each starting where the    *)
(* one before it ended, so every byte lies in exactly one run.         *)
(* ------------------------------------------------------------------ *)
\* the bytes of a run that outputLatin keeps: ASCII letters and digits and
\* the bytes of 2-byte characters
Kept(run) == SelectSeq(run, LAMBDA b : b > 127 \/ IsAlnum(b))

Returned == pc \in {"done", "panic"}

\* C12: the offset of the next handler call is larger than the offset of the
\* call before it and at most len(input); the flush, at len(input), is the
\* last call; a scan that has not returned is at its start or in the loop with
\* a handler to call; a closed CJK run gives at most one window per code point
C12_Progress ==
  /\ pos <= Len(input)
  /\ (last.h # "none" /\ ~last.flush) => (pos > last.pos /\ last.pos < Len(input))
  /\ last.flush => (last.pos = Len(input) /\ Returned)
  /\ ~Returned =>
       \/ pc = "start"
       \/ pc = "loop" /\ h \in {"begin", "breaker", "latin", "cjk"}
  /\ ClosedCJK => Len(Content) <= NumCodePoints(LastRun)

\* a scan over an input with an invalid byte and a 3-byte character ran to
\* its end
C12_Witness ==
  /\ pc = "done"
  /\ last.flush
  /\ \E k \in 1..Len(input) : input[k] = 255
  /\ \E k \in 1..Len(input) : DecodeRune(Drop(input, k - 1)).size = 3

(* ------------------------------------------------------------------ *)
(* C13: for an empty input Tokenize returns at once: no token and no   *)
(* marker is delivered, no handler is called, and begin, the counter,  *)
(* the next-marker threshold and Done are as NewSimpleTokenizer left   *)
(* them.                                                               *)
(* ------------------------------------------------------------------ *)
\* C13: once Tokenize has started on an empty input it has returned, nothing
\* was delivered, no handler ran and the cursor state is the constructed one
C13_EmptyInput ==
  (Len(input) = 0 /\ pc # "start") =>
    /\ pc = "done"
    /\ out = <<>>
    /\ last = NoCall
    /\ begin = 0
    /\ currTokenPos = 0
    /\ nextMarker = MARKER_PER_TOKENS
    /\ Done = FALSE

\* Tokenize has returned from an empty input
C13_Witness ==
  /\ Len(input) = 0
  /\ pc = "done"
  /\ out = <<>>

(* ------------------------------------------------------------------ *)
(* C14: classification by encoded width.  Every code point that is not *)
(* a breaker is Latin-class if its UTF-8 encoding has 1 or 2 bytes and  *)
(* CJK-class if it has 3 or more.                                       *)
(* ------------------------------------------------------------------ *)
\* the number of bytes of the UTF-8 encoding of a rune
EncodedWidth(rune) == Len(EncodeRune(rune))

\* C14: a content character met outside a run starts a Latin run if it is
\* encoded in 1 or 2 bytes and a CJK run if it is encoded in 3 or more, and
\* isLatin holds of it exactly in the first case
C14_ClassByWidth ==
  (last.h \in {"begin", "breaker"} /\ ~last.flush /\ ~isBreakerRune(last.rune)) =>
    /\ isLatin(last.rune) <=> EncodedWidth(last.rune) <= 2
    /\ EncodedWidth(last.rune) <= 2 => h = "latin"
    /\ EncodedWidth(last.rune) >= 3 => h = "cjk"
    /\ pos - last.pos = EncodedWidth(last.rune)

(* ------------------------------------------------------------------ *)
(* C15: no index or slice access of the handlers is out of range, for  *)
(* every byte sequence: the runs handed to outputLatin and outputCJK   *)
(* are non-empty slices of the input made of whole valid characters,   *)
(* those of a Latin run at most 2 bytes wide, so ibuf[i+1] exists for  *)
(* every byte above 127; and breakerToken reads input[begin] only      *)
(* below len(input).                                                   *)
(* ------------------------------------------------------------------ *)
\* C15: Tokenize never panics; a Latin or CJK run is a non-empty slice within
\* the input holding whole characters only, a Latin run none wider than 2
\* bytes; breakerToken on a content character has begin below len(input)
C15_NoPanic ==
  /\ pc # "panic"
  /\ last.h \in {"latin", "cjk"} =>
       /\ last.begin < last.pos
       /\ last.pos <= Len(input)
       /\ WholeChars(LastRun)
  /\ last.h = "latin" =>
       \A k \in 1..Len(Runes(LastRun)) : EncodedWidth(Runes(LastRun)[k]) <= 2
  /\ (last.h = "breaker" /\ ~isBreakerRune(last.rune)) =>
       last.begin < Len(input)

\* a Latin run that ends in a 2-byte character, in an input that also holds
\* an invalid byte, was closed: ibuf[i+1] was the last byte of the run
C15_Witness ==
  /\ ClosedLatin
  /\ pc # "panic"
  /\ Len(LastRun) >= 2
  /\ LastRun[Len(LastRun)] > 127
  /\ Len(Delivered) = 1
  /\ \E k \in 1..Len(input) : input[k] = 255

(* ------------------------------------------------------------------ *)
(* C16: after a yield has returned false no state handler is called    *)
(* again, for a later character or for the end-of-input flush, so      *)
(* begin, the counter and the next-marker threshold stay as the call   *)
(* in which the consumer cancelled left them.                          *)
(* ------------------------------------------------------------------ *)
\* the consumer had already returned false when the last handler call began
CalledAfterStop == last.h # "none" /\ stopAfter # 0 /\ last.nout >= stopAfter

\* C16: no handler call begins after the consumer has returned false
C16_NoCallAfterDone == ~CalledAfterStop

(* ------------------------------------------------------------------ *)
(* C17: in an uncancelled scan the positions of the content tokens     *)
(* (markers left out) increase strictly in delivery order, and the     *)
(* position of a content token is the number of slots consumed before  *)
(* it: one per closed Latin run, one per emitted CJK window, one per   *)
(* closed breaker run that is not a single space.                      *)
(* ------------------------------------------------------------------ *)
\* the slots of a run of len code points that is closed: kind "L" a Latin
\* run, "C" a CJK run, "B" a breaker run (single: it is exactly one space)
SlotsOfRun(kind, len, single) ==
  CASE kind = "L" -> 1
    [] kind = "C" -> len
    [] kind = "B" -> IF single THEN 0 ELSE 1
    [] OTHER -> 0

\* the slots of the runs of a sequence of code points rs, each run closed,
\* the run in progress being of kind kind with len code points so far
RECURSIVE Slots(_, _, _, _)
Slots(rs, kind, len, single) ==
  IF rs = <<>> THEN SlotsOfRun(kind, len, single)
  ELSE LET r == Head(rs)
           k == IF isBreakerRune(r) THEN "B" ELSE IF isLatin(r) THEN "L" ELSE "C"
           joins == \/ (kind = "B" /\ k = "B")
                    \/ (kind = "L" /\ k = "L")
                    \/ (kind = "C" /\ k # "B")
       IN IF joins THEN Slots(Tail(rs), kind, len + 1, FALSE)
          ELSE SlotsOfRun(kind, len, single) + Slots(Tail(rs), k, 1, r = 32)

\* the slots consumed by the runs of input[0:off], all of them closed
SlotsBefore(off) == Slots(Runes(Slice(input, 0, off)), "none", 0, FALSE)

\* the content tokens delivered so far
AllContent == SelectSeq(out, LAMBDA tok : ~IsMarker(tok))

\* C17: with a consumer that never cancels, content positions increase
\* strictly in delivery order; the counter is the number of slots of the runs
\* closed so far; the i-th content token of a closure has as position the
\* slots of the runs before its run plus the windows emitted before it
C17_ContentPositions ==
  stopAfter = 0 =>
    /\ \A i, j \in 1..Len(AllContent) :
         i < j => AllContent[i].TokenPos < AllContent[j].TokenPos
    /\ currTokenPos = SlotsBefore(begin)
    /\ \A i \in 1..Len(Content) :
         Content[i].TokenPos = SlotsBefore(last.begin) + (i - 1)

\* an uncancelled scan delivered several content tokens after slots that
\* delivered none: positions run ahead of the number of tokens
C17_Witness ==
  /\ stopAfter = 0
  /\ pc = "done"
  /\ Len(AllContent) >= 2
  /\ AllContent[1].TokenPos >= 2
  /\ AllContent[Len(AllContent)].TokenPos > AllContent[1].TokenPos

(* ------------------------------------------------------------------ *)
(* Tokenize as a function of the input and the consumer                *)
(* ------------------------------------------------------------------ *)
\* NewSimpleTokenizer(input), facing a consumer that stops at its k-th token
Fresh(k) ==
  [begin |-> 0, currTokenPos |-> 0, nextMarker |-> MARKER_PER_TOKENS,
   latinBuf |-> <<>>, Done |-> FALSE, out |-> <<>>, panicked |-> FALSE,
   stopAfter |-> k]

\* the range loop from offset p with handler hh, then the flush: the
\* tokenizer when Tokenize returns
RECURSIVE Scan(_, _, _)
Scan(t, hh, p) ==
  IF p < Len(input)
    THEN IF t.Done THEN t
         ELSE LET d == DecodeRune(Drop(input, p))
                  r == Call(hh, t, p, d.r)
              IN IF r.t.panicked THEN r.t ELSE Scan(r.t, r.h, p + d.size)
    ELSE Call(hh, t, Len(input), 32).t

\* Tokenize of a fresh tokenizer over input, the consumer stopping at its
\* k-th token (never, for k = 0)
Tokenize(k) ==
  IF Len(input) = 0 THEN Fresh(k) ELSE Scan(Fresh(k), "begin", 0)

(* ------------------------------------------------------------------ *)
(* C18: markers map positions to offsets.  Marker offsets grow         *)
(* strictly with the threshold and lie in 0..len(input); for a marker  *)
(* of threshold T at offset p, every content token of position < T     *)
(* starts at an offset <= p and every content token of position >= T   *)
(* starts at an offset >= p, whether the counter crossed T in a Latin, *)
(* a breaker or a CJK run.                                             *)
(* ------------------------------------------------------------------ *)
\* the threshold of the marker that is the i-th delivered token
MarkerThreshold(i) == MARKER_PER_TOKENS * MarkersBefore(i)

\* the handler invocation that delivered the j-th token
CallOf(j) ==
  calls[CHOOSE c \in 1..Len(calls) :
          /\ calls[c].nout < j
          /\ \A d \in (c + 1)..Len(calls) : calls[d].nout >= j]

\* the input offset where the text of the j-th delivered token, a content
\* token, starts: the start of the run for a Latin token, the offset of its
\* first code point for a CJK window
StartOf(j) ==
  LET c == CallOf(j)
      windowsBefore ==
        Len(SelectSeq(SubSeq(out, c.nout + 1, j - 1), LAMBDA tok : ~IsMarker(tok)))
  IN IF c.h = "cjk"
       THEN c.begin + CodePointOffset(Slice(input, c.begin, c.pos), windowsBefore)
       ELSE c.begin

\* C18: in every state each marker names its threshold, has an offset in
\* 0..len(input) that is below the offsets of all later markers, and separates
\* the content tokens: those of smaller position start at or before its
\* offset, those of position at or above its threshold at or after it
C18_MarkerMap ==
  \A i \in 1..Len(out) :
    IsMarker(out[i]) =>
      /\ Stored(out[i]) = SprintfMarker(MarkerThreshold(i))
      /\ out[i].TokenPos >= 0
      /\ out[i].TokenPos <= Len(input)
      /\ \A j \in 1..Len(out) :
           IF IsMarker(out[j])
             THEN i < j => out[i].TokenPos < out[j].TokenPos
             ELSE /\ StartOf(j) >= 0
                  /\ StartOf(j) < Len(input)
                  /\ out[j].TokenPos < MarkerThreshold(i) =>
                       StartOf(j) <= out[i].TokenPos
                  /\ out[j].TokenPos >= MarkerThreshold(i) =>
                       StartOf(j) >= out[i].TokenPos

\* the counter crossed a threshold inside a CJK run, at a window that is not
\* the last of the run: content tokens lie on both sides of the marker
C18_Witness ==
  /\ pc = "done"
  /\ stopAfter = 0
  /\ last.h = "cjk"
  /\ Len(Delivered) >= 3
  /\ ~IsMarker(Delivered[1])
  /\ IsMarker(Delivered[2])
  /\ ~IsMarker(Delivered[3])
  /\ last.nout > 0

(* ------------------------------------------------------------------ *)
(* C19: cancellation preserves the prefix.  For every input and every  *)
(* k, what a consumer that stops at its k-th token receives is exactly *)
(* the first k tokens, payloads, positions and markers, of what an     *)
(* uncancelled scan of a fresh tokenizer over the same input delivers. *)
(* ------------------------------------------------------------------ *)
\* the tokens an uncancelled scan of a fresh tokenizer over input delivers
Uncancelled == Tokenize(0).out

\* C19: when Tokenize has returned to a consumer that stops at its
\* stopAfter-th token, the tokens received are the first stopAfter tokens of
\* the uncancelled scan (all of them, if it has fewer)
C19_CancelledPrefix ==
  (pc = "done" /\ stopAfter # 0) =>
    out = SubSeq(Uncancelled, 1, Min(stopAfter, Len(Uncancelled)))

(* ------------------------------------------------------------------ *)
(* C20: Latin truncation keeps a prefix.  The working buffer is the    *)
(* filtered form of a prefix of the run: once a character is rejected  *)
(* for lack of room (an ASCII byte met at buffer length 23, a 2-byte   *)
(* character met at buffer length 22 or more) no later character of    *)
(* the run is appended, not even a letter that would still fit.        *)
(* ------------------------------------------------------------------ *)
\* offset m is a character boundary of run
Boundary(run, m) == m = Len(run) \/ ~IsCont(run[m + 1])

\* the character at offset m of run finds no room in the filtered form of
\* run[0:m]
NoRoomAt(run, m) ==
  /\ m < Len(run)
  /\ IF run[m + 1] > 127
       THEN Len(Kept(SubSeq(run, 1, m))) >= MAX_TOKEN_SIZE - 1
       ELSE Len(Kept(SubSeq(run, 1, m))) >= MAX_TOKEN_SIZE

\* C20: the buffer of a closed Latin run is the filtered form of the run up
\* to the first character that finds no room, or of the whole run if every
\* character finds room
C20_TruncationKeepsPrefix ==
  ClosedLatin =>
    \E m \in 0..Len(LastRun) :
      /\ Boundary(LastRun, m)
      /\ latinBuf = Kept(SubSeq(LastRun, 1, m))
      /\ m < Len(LastRun) => NoRoomAt(LastRun, m)
      /\ \A n \in 0..(m - 1) : Boundary(LastRun, n) => ~NoRoomAt(LastRun, n)

\* a Latin run was closed in which a 2-byte character found no room at buffer
\* length 22 and a letter follows it: the buffer stayed at 22 bytes
C20_Witness ==
  /\ ClosedLatin
  /\ Len(latinBuf) = MAX_TOKEN_SIZE - 1
  /\ IsAlnum(LastRun[Len(LastRun)])
  /\ \E m \in 1..(Len(LastRun) - 2) :
       /\ LastRun[m + 1] > 127
       /\ NoRoomAt(LastRun, m)
       /\ Len(Kept(SubSeq(LastRun, 1, m))) = MAX_TOKEN_SIZE - 1

====
